---- MODULE Spec2Model ----
(***************************************************************************)
(* Router call builder of the SDK (Router.swapCallParameters), in its two  *)
(* variants: the one reading the tip from options.ethFee (src/router.ts)   *)
(* and the one reading it from options.ethTip, together with the pair      *)
(* pricing formulas (getOutputAmount / getInputAmount) that use the fee    *)
(* constants 9975 and 10000.                                               *)
(*                                                                         *)
(* A hex string "0x<digits>" is modelled by the sequence of its digits     *)
(* (each 0..15, most significant first): "0x0" is <<0>>, "0x1f" <<1,15>>.  *)
(***************************************************************************)
EXTENDS Integers, Sequences, FiniteSets, TLC

VARIABLES trade, options, ethAmount, now, result, prev, pair, quote

vars == <<trade, options, ethAmount, now, result, prev, pair, quote>>
routerVars == <<trade, options, ethAmount, now, result, prev>>
pairVars == <<pair, quote>>

-----------------------------------------------------------------------------
(* Bounds of the model *)

MaxRaw == 2
MaxTip == 1
MaxTicks == 2
StartMs == 1500
TickMs == 500
MaxReserve == 4
MaxAmountIn == 5

-----------------------------------------------------------------------------
(* constants.ts *)

EXACT_INPUT == "EXACT_INPUT"
EXACT_OUTPUT == "EXACT_OUTPUT"
TradeType == {EXACT_INPUT, EXACT_OUTPUT}

\* _9975 and _10000 (an identifier cannot start with an underscore)
N_10000 == 10000
\* a variant charging no fee
N_9975_noFee == N_10000
N_9975 == 9975

-----------------------------------------------------------------------------
(* entities: currencies, amounts, percents, trades (inputs of the builder) *)

\* the native asset (a currency without an address) and some tokens
ETHER == [symbol |-> "ETH"]
WETH == [symbol |-> "WETH", address |-> "0xWETH"]
TokenA == [symbol |-> "A", address |-> "0xA"]
TokenB == [symbol |-> "B", address |-> "0xB"]
TokenC == [symbol |-> "C", address |-> "0xC"]

CurrencyAmount(currency, raw) == [currency |-> currency, raw |-> raw]

\* CurrencyAmount.add: both amounts must be of the same currency
add(a, b) ==
  IF a.currency = b.currency
    THEN [threw |-> FALSE, amount |-> CurrencyAmount(a.currency, a.raw + b.raw)]
    ELSE [threw |-> TRUE, amount |-> a]

Percent(numerator, denominator) == [numerator |-> numerator, denominator |-> denominator]

CeilDiv(n, d) == (n + d - 1) \div d

\* Trade.maximumAmountIn: the input itself for EXACT_INPUT, else
\* inputAmount * (1 + slippageTolerance), rounded up
maximumAmountIn(t, slippageTolerance) ==
  IF t.tradeType = EXACT_INPUT
    THEN t.inputAmount
    ELSE CurrencyAmount(t.inputAmount.currency,
           CeilDiv(t.inputAmount.raw
                     * (slippageTolerance.denominator + slippageTolerance.numerator),
                   slippageTolerance.denominator))

\* Trade.minimumAmountOut: the output itself for EXACT_OUTPUT, else
\* outputAmount / (1 + slippageTolerance), rounded down
minimumAmountOut(t, slippageTolerance) ==
  IF t.tradeType = EXACT_OUTPUT
    THEN t.outputAmount
    ELSE CurrencyAmount(t.outputAmount.currency,
           (t.outputAmount.raw * slippageTolerance.denominator)
             \div (slippageTolerance.denominator + slippageTolerance.numerator))

\* utils.validateAndParseAddress: the checksummed form of a well-formed
\* address; a malformed one is rejected
IsAddress(a) == a \in {"0xab12", "0xAb12"}
Checksummed(a) == "0xAb12"
AddressError == "is not a valid address"

-----------------------------------------------------------------------------
(* router: helpers *)

RECURSIVE HexDigits(_)
HexDigits(n) == IF n < 16 THEN <<n>> ELSE Append(HexDigits(n \div 16), n % 16)

\* toHex(currencyAmount) = `0x${currencyAmount.raw.toString(16)}`
toHex(currencyAmount) == HexDigits(currencyAmount.raw)

\* Math.floor(new Date().getTime() / 1000)
UnixSeconds(ms) == ms \div 1000

\* tiny-invariant: invariant(cond, message) throws "Invariant failed: message",
\* and "Invariant failed" when no message is given
InvariantFailed(message) == <<"Invariant failed", message>>
InvariantFailedNoMessage == <<"Invariant failed">>

\* outcome of a call: what it threw or returned, and the calls it made on
\* the way (in order)
Throw(reason, calls) ==
  [outcome |-> "throw", reason |-> reason, calls |-> calls, ret |-> <<>>]
Return(value, calls) ==
  [outcome |-> "return", reason |-> <<>>, calls |-> calls, ret |-> <<value>>]

-----------------------------------------------------------------------------
(* router.ts: Router.swapCallParameters, the tip read from options.ethFee *)

\* a variant accepting a zero ttl
ttlOk_nonNegative(o) == o.ttl >= 0

\* invariant(options.ttl > 0, 'TTL')
ttlOk(o) == o.ttl > 0

\* invariant('ethFee' in options && options.ethFee?.currency === ETHER)
ethFeeOk(o) == "ethFee" \in DOMAIN o /\ o.ethFee.currency = ETHER

\* a variant taking the trade's input amount, without the slippage
amountInCurrencyOf_noSlippage(t, o) == t.inputAmount

\* const amountInCurrency = trade.maximumAmountIn(options.allowedSlippage)
amountInCurrencyOf(t, o) == maximumAmountIn(t, o.allowedSlippage)

\* const amountOutCurrency = trade.minimumAmountOut(options.allowedSlippage)
amountOutCurrencyOf(t, o) == minimumAmountOut(t, o.allowedSlippage)

\* a variant giving the path from the output back to the input
pathOf_reversed(t) ==
  [i \in 1 .. Len(t.route.path) |-> t.route.path[Len(t.route.path) + 1 - i].address]

\* const path = trade.route.path.map(token => token.address)
pathOf(t) == [i \in 1 .. Len(t.route.path) |-> t.route.path[i].address]

\* const deadline = `0x${(Math.floor(new Date().getTime() / 1000) + options.ttl).toString(16)}`
deadlineOf(nowMs, o) == HexDigits(UnixSeconds(nowMs) + o.ttl)

\* a variant naming the EXACT_OUTPUT native-out method after its EXACT_INPUT twin
methodNameOf_tipForFee(tradeType, etherIn, etherOut) ==
  IF tradeType = EXACT_INPUT
    THEN IF etherIn THEN "swapExactETHForTokensWithFeeAmount"
         ELSE IF etherOut THEN "swapExactTokensForETHAndTipAmount"
         ELSE "swapExactTokensForTokensWithFeeAmount"
    ELSE IF etherIn THEN "swapETHForExactTokensWithFeeAmount"
         ELSE IF etherOut THEN "swapTokensForExactETHAndTipAmount"
         ELSE "swapTokensForExactTokensWithFeeAmount"

\* the switch on trade.tradeType: the method name of each branch
methodNameOf(tradeType, etherIn, etherOut) ==
  IF tradeType = EXACT_INPUT
    THEN IF etherIn THEN "swapExactETHForTokensWithFeeAmount"
         ELSE IF etherOut THEN "swapExactTokensForETHAndTipAmount"
         ELSE "swapExactTokensForTokensWithFeeAmount"
    ELSE IF etherIn THEN "swapETHForExactTokensWithFeeAmount"
         ELSE IF etherOut THEN "swapTokensForExactETHAndFeeAmount"
         ELSE "swapTokensForExactTokensWithFeeAmount"

\* a variant passing the tip as an argument in every branch
argsOf_always(etherIn, safeSwapTrade, ethFee) == <<safeSwapTrade, ethFee>>

\* the switch on trade.tradeType: args of each branch
argsOf(etherIn, safeSwapTrade, ethFee) ==
  IF etherIn THEN <<safeSwapTrade, ethFee>> ELSE <<safeSwapTrade>>

\* a variant attaching nothing when the input is a token (value = ZERO_HEX)
valueOf_zeroHex(etherIn, sum, ethFee) ==
  IF etherIn THEN toHex(sum.amount) ELSE <<0>>

\* the switch on trade.tradeType: value of each branch; the sum is
\* amountInCurrency.add(options.ethFee)
valueOf(etherIn, sum, ethFee) ==
  IF etherIn THEN toHex(sum.amount) ELSE ethFee

\* lines 90-168: everything after the validation
buildSwapParameters(t, o, nowMs, to, calls) ==
  LET etherIn == t.inputAmount.currency = ETHER
      etherOut == t.outputAmount.currency = ETHER
      amountInCurrency == amountInCurrencyOf(t, o)
      amountIn == toHex(amountInCurrency)
      amountOutCurrency == amountOutCurrencyOf(t, o)
      amountOut == toHex(amountOutCurrency)
      path == pathOf(t)
      deadline == deadlineOf(nowMs, o)
      ethFee == toHex(o.ethFee)
      safeSwapTrade == [amountIn |-> amountIn, amountOut |-> amountOut,
                        path |-> path, to |-> to, deadline |-> deadline]
      called == calls \o <<"maximumAmountIn", "minimumAmountOut">>
      sum == add(amountInCurrency, o.ethFee)
  IN
  IF etherIn /\ sum.threw
    THEN Throw(InvariantFailed("TOKEN"), Append(called, "add"))
    ELSE Return([methodName |-> methodNameOf(t.tradeType, etherIn, etherOut),
                 args |-> argsOf(etherIn, safeSwapTrade, ethFee),
                 value |-> valueOf(etherIn, sum, ethFee)],
                IF etherIn THEN Append(called, "add") ELSE called)

\* a variant validating the recipient only after the amounts are computed
swapCallParameters_lateValidation(t, o, nowMs) ==
  LET etherIn == t.inputAmount.currency = ETHER
      etherOut == t.outputAmount.currency = ETHER
  IN
  IF etherIn /\ etherOut THEN Throw(InvariantFailed("ETHER_IN_OUT"), <<>>)
  ELSE IF ~ttlOk(o) THEN Throw(InvariantFailed("TTL"), <<>>)
  ELSE IF ~ethFeeOk(o) THEN Throw(InvariantFailedNoMessage, <<>>)
  ELSE
    LET built == buildSwapParameters(t, o, nowMs, Checksummed(o.recipient), <<>>)
    IN IF ~IsAddress(o.recipient)
         THEN Throw(<<AddressError>>, Append(built.calls, "validateAndParseAddress"))
         ELSE built

swapCallParameters(t, o, nowMs) ==
  LET etherIn == t.inputAmount.currency = ETHER
      etherOut == t.outputAmount.currency = ETHER
  IN
  IF etherIn /\ etherOut THEN Throw(InvariantFailed("ETHER_IN_OUT"), <<>>)
  ELSE IF ~ttlOk(o) THEN Throw(InvariantFailed("TTL"), <<>>)
  ELSE IF ~ethFeeOk(o) THEN Throw(InvariantFailedNoMessage, <<>>)
  ELSE IF ~IsAddress(o.recipient)
    THEN Throw(<<AddressError>>, <<"validateAndParseAddress">>)
  ELSE buildSwapParameters(t, o, nowMs, Checksummed(o.recipient),
                           <<"validateAndParseAddress">>)

(* Router.swapCallParameters of the second router module, the tip read from
   options.ethTip *)

swapCallParameters_ethTip(t, o, nowMs) ==
  LET etherIn == t.inputAmount.currency = ETHER
      etherOut == t.outputAmount.currency = ETHER
  IN
  IF etherIn /\ etherOut THEN Throw(InvariantFailed("ETHER_IN_OUT"), <<>>)
  ELSE IF ~(o.ttl > 0) THEN Throw(InvariantFailed("TTL"), <<>>)
  ELSE IF ~("ethTip" \in DOMAIN o /\ o.ethTip.currency = ETHER)
    THEN Throw(InvariantFailedNoMessage, <<>>)
  ELSE IF ~IsAddress(o.recipient)
    THEN Throw(<<AddressError>>, <<"validateAndParseAddress">>)
  ELSE
    LET to == Checksummed(o.recipient)
        amountInCurrency == maximumAmountIn(t, o.allowedSlippage)
        amountIn == toHex(amountInCurrency)
        amountOutCurrency == minimumAmountOut(t, o.allowedSlippage)
        amountOut == toHex(amountOutCurrency)
        path == [i \in 1 .. Len(t.route.path) |-> t.route.path[i].address]
        deadline == HexDigits(UnixSeconds(nowMs) + o.ttl)
        ethTip == toHex(o.ethTip)
        safeSwapTrade == [amountIn |-> amountIn, amountOut |-> amountOut,
                          path |-> path, to |-> to, deadline |-> deadline]
        calls == <<"validateAndParseAddress", "maximumAmountIn", "minimumAmountOut">>
        sum == add(amountInCurrency, o.ethTip)
        withEther(methodName) ==
          IF sum.threw THEN Throw(InvariantFailed("TOKEN"), Append(calls, "add"))
          ELSE Return([methodName |-> methodName,
                       args |-> <<safeSwapTrade, ethTip>>,
                       value |-> toHex(sum.amount)], Append(calls, "add"))
        withoutEther(methodName) ==
          Return([methodName |-> methodName,
                  args |-> <<safeSwapTrade>>,
                  value |-> ethTip], calls)
    IN
    IF t.tradeType = EXACT_INPUT
      THEN IF etherIn THEN withEther("swapExactETHForTokensWithTipAmount")
           ELSE IF etherOut THEN withoutEther("swapExactTokensForETHAndTipAmount")
           ELSE withoutEther("swapExactTokensForTokensWithTipAmount")
      ELSE IF etherIn THEN withEther("swapETHForExactTokensWithTipAmount")
           ELSE IF etherOut THEN withoutEther("swapTokensForExactETHAndTipAmount")
           ELSE withoutEther("swapTokensForExactTokensWithTipAmount")

-----------------------------------------------------------------------------
(* Pair: constant-product pricing on reserves (reserveIn, reserveOut) *)

Pair(reserveIn, reserveOut) == [reserveIn |-> reserveIn, reserveOut |-> reserveOut]

Failed(reason, p) == [threw |-> reason, amount |-> 0, pair |-> p]
Priced(amount, p) == [threw |-> "", amount |-> amount, pair |-> p]

getOutputAmount(p, amountIn) ==
  IF p.reserveIn = 0 \/ p.reserveOut = 0 THEN Failed("InsufficientReserves", p)
  ELSE IF ~(amountIn > 0) THEN Failed("InsufficientInputAmount", p)
  ELSE
    LET amountInWithFee == amountIn * N_9975
        numerator == amountInWithFee * p.reserveOut
        denominator == p.reserveIn * N_10000 + amountInWithFee
        amountOut == numerator \div denominator
    IN IF amountOut >= p.reserveOut THEN Failed("InsufficientReserves", p)
       ELSE Priced(amountOut, Pair(p.reserveIn + amountIn, p.reserveOut - amountOut))

getInputAmount(p, amountOut) ==
  IF p.reserveIn = 0 \/ p.reserveOut = 0 THEN Failed("InsufficientReserves", p)
  ELSE IF ~(amountOut > 0) THEN Failed("InsufficientOutputAmount", p)
  ELSE IF ~(amountOut < p.reserveOut) THEN Failed("InsufficientReserves", p)
  ELSE
    LET numerator == p.reserveIn * amountOut * N_10000
        denominator == (p.reserveOut - amountOut) * N_9975
        amountIn == (numerator \div denominator) + 1
    IN Priced(amountIn, Pair(p.reserveIn + amountIn, p.reserveOut - amountOut))

-----------------------------------------------------------------------------
(* Inputs of the router call builder *)

Wrapped(currency) == IF currency = ETHER THEN WETH ELSE currency

Routes(input, output) ==
  LET in == Wrapped(input)
      out == Wrapped(output)
  IN { <<in, TokenC, out>> } \cup (IF in = out THEN {} ELSE { <<in, out>> })

Trades ==
  UNION { UNION { { [tradeType |-> tt,
                     inputAmount |-> CurrencyAmount(ic, ir),
                     outputAmount |-> CurrencyAmount(oc, or),
                     route |-> [path |-> rp]] :
                      tt \in TradeType, ir \in 1 .. MaxRaw, or \in 1 .. MaxRaw,
                      rp \in Routes(ic, oc) } :
                  oc \in {ETHER, TokenB} } :
          ic \in {ETHER, TokenA} }

Slippages == { Percent(0, 100), Percent(50, 100) }
Ttls == { -1, 0, 1, 1200 }
Recipients == { "0xab12", "0xAb12", "0xbogus" }

\* the options without the tip
OptionsSet ==
  [allowedSlippage : Slippages, ttl : Ttls, recipient : Recipients]

\* the tip a caller supplies: none, or an amount in the native asset or in a token
EthAmounts ==
  { <<>> } \cup { <<CurrencyAmount(ETHER, r)>> : r \in 0 .. MaxTip }
           \cup { <<CurrencyAmount(TokenA, 1)>> }

\* the options as each module reads them: the tip under ethFee, or under ethTip
WithEthFee(o, amount) == IF amount = <<>> THEN o ELSE [ethFee |-> amount[1]] @@ o
WithEthTip(o, amount) == IF amount = <<>> THEN o ELSE [ethTip |-> amount[1]] @@ o

\* a two-hop trade and options carrying a zero tip
SampleTrade(ic, oc) ==
  [tradeType |-> EXACT_INPUT, inputAmount |-> CurrencyAmount(ic, 1),
   outputAmount |-> CurrencyAmount(oc, 1),
   route |-> [path |-> <<Wrapped(ic), TokenC, Wrapped(oc)>>]]
SampleOptions(ttl, recipient, currency) ==
  [allowedSlippage |-> Percent(0, 100), ttl |-> ttl, recipient |-> recipient,
   ethFee |-> CurrencyAmount(currency, 0)]

-----------------------------------------------------------------------------
(* The calls *)

Init ==
  /\ trade \in Trades
  /\ options \in OptionsSet
  /\ ethAmount \in EthAmounts
  /\ now = StartMs
  /\ result = <<>>
  /\ prev = <<>>
  /\ pair = Pair(1, 1)
  /\ quote = <<>>

\* time passes
Tick ==
  /\ now < StartMs + MaxTicks * TickMs
  /\ now' = now + TickMs
  /\ UNCHANGED <<trade, options, ethAmount, result, prev, pair, quote>>

\* Router.swapCallParameters(trade, options) is called, on each of the two
\* router modules, with the tip under the key the module reads
SwapCallParameters ==
  /\ result' = << [at |-> now,
                   fee |-> swapCallParameters(trade, WithEthFee(options, ethAmount), now),
                   tip |-> swapCallParameters_ethTip(trade, WithEthTip(options, ethAmount), now)] >>
  /\ prev' = result
  /\ UNCHANGED <<trade, options, ethAmount, now, pair, quote>>

Next == Tick \/ SwapCallParameters

Spec == Init /\ [][Next]_vars

\* reserves and input amounts: the small ones, and a large one of each for
\* which the fee divides evenly (9975 / 10000 = 399 / 400)
Reserves == (0 .. MaxReserve) \cup {399}
AmountsIn == (0 .. MaxAmountIn) \cup {400}

InitPair ==
  /\ trade = SampleTrade(TokenA, TokenB)
  /\ options = [allowedSlippage |-> Percent(0, 100), ttl |-> 1200, recipient |-> "0xAb12"]
  /\ ethAmount = <<>>
  /\ now = StartMs
  /\ result = <<>>
  /\ prev = <<>>
  /\ pair \in { Pair(rIn, rOut) : rIn \in Reserves, rOut \in Reserves }
  /\ quote = <<>>

\* pair.getOutputAmount(amountIn), then pair.getInputAmount(that output) on the
\* same pair
RoundTrip(amountIn) ==
  /\ LET output == getOutputAmount(pair, amountIn)
         input == IF output.threw = "" THEN getInputAmount(pair, output.amount)
                  ELSE Failed("NotCalled", pair)
     IN quote' = << [amountIn |-> amountIn, output |-> output, input |-> input] >>
  /\ UNCHANGED <<pair, routerVars>>

NextPair == \E amountIn \in AmountsIn : RoundTrip(amountIn)

SpecPair == InitPair /\ [][NextPair]_vars

-----------------------------------------------------------------------------
(* Properties of the router call builder *)

Called == result # <<>>
CallAt == result[1].at
Fee == result[1].fee
Tip == result[1].tip
Modules == {"fee", "tip"}
Outcome(m) == result[1][m]
Returned(m) == Called /\ Outcome(m).outcome = "return"
Threw(m) == Called /\ Outcome(m).outcome = "throw"
Ret(m) == Outcome(m).ret[1]

EtherIn == trade.inputAmount.currency = ETHER
EtherOut == trade.outputAmount.currency = ETHER
TipSupplied == ethAmount # <<>>
TipRaw == ethAmount[1].raw
MaxIn == maximumAmountIn(trade, options.allowedSlippage)
MinOut == minimumAmountOut(trade, options.allowedSlippage)

RECURSIVE FromHex(_)
FromHex(h) ==
  IF Len(h) = 1 THEN h[1] ELSE 16 * FromHex(SubSeq(h, 1, Len(h) - 1)) + h[Len(h)]

\* the method names of the interface, by trade type and native-asset position
ClaimedMethodName ==
  IF trade.tradeType = EXACT_INPUT
    THEN IF EtherIn THEN "swapExactETHForTokensWithFeeAmount"
         ELSE IF EtherOut THEN "swapExactTokensForETHAndTipAmount"
         ELSE "swapExactTokensForTokensWithFeeAmount"
    ELSE IF EtherIn THEN "swapETHForExactTokensWithFeeAmount"
         ELSE IF EtherOut THEN "swapTokensForExactETHAndFeeAmount"
         ELSE "swapTokensForExactTokensWithFeeAmount"

\* the same table with "Tip" for "Fee"
TipMethodName ==
  IF trade.tradeType = EXACT_INPUT
    THEN IF EtherIn THEN "swapExactETHForTokensWithTipAmount"
         ELSE IF EtherOut THEN "swapExactTokensForETHAndTipAmount"
         ELSE "swapExactTokensForTokensWithTipAmount"
    ELSE IF EtherIn THEN "swapETHForExactTokensWithTipAmount"
         ELSE IF EtherOut THEN "swapTokensForExactETHAndTipAmount"
         ELSE "swapTokensForExactTokensWithTipAmount"

\* C1 (as stated): every successful call, on either router module, returns
\* the method name the interface fixes for (tradeType, native-asset position).
C1_AsStated ==
  \A m \in Modules : Returned(m) => Ret(m).methodName = ClaimedMethodName

\* C1 (amended): the module reading ethFee returns the interface's six names;
\* the module reading ethTip returns the same six names with "Tip" for "Fee".
C1_MethodNames ==
  /\ Returned("fee") => Fee.ret[1].methodName = ClaimedMethodName
  /\ Returned("tip") => Tip.ret[1].methodName = TipMethodName

C1_Witness ==
  /\ Returned("fee") /\ Returned("tip")
  /\ trade.tradeType = EXACT_OUTPUT /\ EtherOut
  /\ Fee.ret[1].methodName = "swapTokensForExactETHAndFeeAmount"

\* C2: the value of a successful call is the hex of maximumAmountIn plus the
\* tip when the input is the native asset, and the hex of the tip otherwise;
\* with a zero tip that is toHex(maximumAmountIn), respectively 0x0.
C2_Value ==
  \A m \in Modules :
    Returned(m) =>
      /\ Ret(m).value = HexDigits(IF EtherIn THEN MaxIn.raw + TipRaw ELSE TipRaw)
      /\ TipRaw = 0 => Ret(m).value = (IF EtherIn THEN toHex(MaxIn) ELSE <<0>>)

C2_Witness ==
  /\ Returned("fee") /\ EtherIn /\ TipRaw > 0
  /\ trade.tradeType = EXACT_OUTPUT /\ MaxIn.raw > trade.inputAmount.raw

\* C3: a call that fails validation (both sides native, ttl <= 0, invalid
\* recipient) throws without having called maximumAmountIn or
\* minimumAmountOut, and yields no result.
C3_FailsBeforeAmounts ==
  \A m \in Modules :
    Called =>
      /\ ((EtherIn /\ EtherOut) \/ options.ttl <= 0 \/ ~IsAddress(options.recipient))
            => Threw(m)
      /\ Threw(m) =>
           /\ Outcome(m).ret = <<>>
           /\ \A i \in 1 .. Len(Outcome(m).calls) :
                Outcome(m).calls[i] \notin {"maximumAmountIn", "minimumAmountOut"}

C3_Witness ==
  /\ Threw("fee") /\ ~IsAddress(options.recipient)
  /\ ~(EtherIn /\ EtherOut) /\ options.ttl > 0
  /\ TipSupplied /\ ethAmount[1].currency = ETHER
  /\ Fee.calls = <<"validateAndParseAddress">>

OtherwiseValid ==
  ~(EtherIn /\ EtherOut) /\ options.ttl > 0 /\ IsAddress(options.recipient)

\* C4: the tip is validated only if supplied: an otherwise valid call without
\* a tip succeeds as with a zero tip, and one with a tip is rejected exactly
\* when the tip is not in the native asset.
C4_TipOptional ==
  \A m \in Modules :
    (Called /\ OtherwiseValid) =>
      /\ ~TipSupplied =>
           /\ Returned(m)
           /\ Ret(m).value = (IF EtherIn THEN toHex(MaxIn) ELSE <<0>>)
      /\ TipSupplied => (Threw(m) <=> ethAmount[1].currency # ETHER)

\* the reason each check of the ethFee module reports, taken from a call that
\* fails that check alone
ReasonOfKind(kind) ==
  CASE kind = "ETHER_IN_OUT" ->
         swapCallParameters(SampleTrade(ETHER, ETHER),
                            SampleOptions(1, "0xAb12", ETHER), StartMs).reason
    [] kind = "TTL" ->
         swapCallParameters(SampleTrade(ETHER, TokenB),
                            SampleOptions(0, "0xAb12", ETHER), StartMs).reason
    [] kind = "TIP" ->
         swapCallParameters(SampleTrade(ETHER, TokenB),
                            SampleOptions(1, "0xAb12", TokenA), StartMs).reason
    [] kind = "RECIPIENT" ->
         swapCallParameters(SampleTrade(ETHER, TokenB),
                            SampleOptions(1, "0xbogus", ETHER), StartMs).reason
Kinds == {"ETHER_IN_OUT", "TTL", "TIP", "RECIPIENT"}

\* C5: each kind of validation failure (both sides native, ttl <= 0,
\* malformed recipient, tip not in the native asset) is reported with a reason
\* of its own: the error names the check that failed, and no two checks share
\* a reason.
C5_NamedReasons ==
  (/\ Threw("fee")
   /\ \/ EtherIn /\ EtherOut
      \/ options.ttl <= 0
      \/ ~IsAddress(options.recipient)
      \/ TipSupplied /\ ethAmount[1].currency # ETHER) =>
    /\ Fee.reason # InvariantFailedNoMessage
    /\ \A k1, k2 \in Kinds : k1 # k2 => ReasonOfKind(k1) # ReasonOfKind(k2)

\* C6: amountIn is the hex of maximumAmountIn(allowedSlippage) and amountOut
\* the hex of minimumAmountOut(allowedSlippage); so amountIn is the trade's
\* input for EXACT_INPUT, amountOut the trade's output for EXACT_OUTPUT, and
\* both are the trade's own amounts at slippage 0.
C6_Amounts ==
  \A m \in Modules :
    Returned(m) =>
      /\ Ret(m).args[1].amountIn = toHex(MaxIn)
      /\ Ret(m).args[1].amountOut = toHex(MinOut)
      /\ trade.tradeType = EXACT_INPUT
           => Ret(m).args[1].amountIn = HexDigits(trade.inputAmount.raw)
      /\ trade.tradeType = EXACT_OUTPUT
           => Ret(m).args[1].amountOut = HexDigits(trade.outputAmount.raw)
      /\ options.allowedSlippage.numerator = 0
           => /\ Ret(m).args[1].amountIn = HexDigits(trade.inputAmount.raw)
              /\ Ret(m).args[1].amountOut = HexDigits(trade.outputAmount.raw)

C6_Witness ==
  /\ Returned("fee") /\ trade.tradeType = EXACT_OUTPUT
  /\ options.allowedSlippage.numerator > 0
  /\ FromHex(Fee.ret[1].args[1].amountIn) > trade.inputAmount.raw

\* C7: the deadline is the hex of (Unix time in whole seconds at the call +
\* ttl); it is strictly later than the time of the call; and of two calls
\* with the same ttl, the later one has the later (or the same) deadline.
C7_Deadline ==
  \A m \in Modules :
    Returned(m) =>
      /\ Ret(m).args[1].deadline = HexDigits((CallAt \div 1000) + options.ttl)
      /\ FromHex(Ret(m).args[1].deadline) > CallAt \div 1000
      /\ FromHex(Ret(m).args[1].deadline) * 1000 > CallAt
      /\ (prev # <<>> /\ prev[1][m].outcome = "return" /\ prev[1].at <= CallAt)
           => FromHex(prev[1][m].ret[1].args[1].deadline)
                <= FromHex(Ret(m).args[1].deadline)

C7_Witness ==
  /\ Returned("fee") /\ prev # <<>> /\ prev[1].fee.outcome = "return"
  /\ prev[1].at < CallAt
  /\ prev[1].at \div 1000 < CallAt \div 1000
  /\ CallAt % 1000 # 0

\* C9 (as stated): on the same trade and options (the tip under ethFee for
\* one, under ethTip for the other) the two modules both reject or both
\* succeed, and on success return the same methodName, args and value.
C9_AsStated ==
  Called =>
    /\ Fee.outcome = Tip.outcome
    /\ Returned("fee") =>
         /\ Fee.ret[1].methodName = Tip.ret[1].methodName
         /\ Fee.ret[1].args = Tip.ret[1].args
         /\ Fee.ret[1].value = Tip.ret[1].value

\* C9 (amended): the two modules both reject (with the same reason) or both
\* succeed, and on success return the same args and the same value; their
\* method names differ by "Tip" for "Fee", and so are equal only for
\* swapExactTokensForETHAndTipAmount.
C9_SameButNames ==
  Called =>
    /\ Fee.outcome = Tip.outcome
    /\ Fee.reason = Tip.reason
    /\ Fee.calls = Tip.calls
    /\ Returned("fee") =>
         /\ Fee.ret[1].args = Tip.ret[1].args
         /\ Fee.ret[1].value = Tip.ret[1].value
         /\ Fee.ret[1].methodName = ClaimedMethodName
         /\ Tip.ret[1].methodName = TipMethodName
         /\ (Fee.ret[1].methodName = Tip.ret[1].methodName)
              <=> (trade.tradeType = EXACT_INPUT /\ EtherOut)

C9_Witness ==
  /\ Returned("fee") /\ Returned("tip")
  /\ EtherIn /\ TipRaw > 0
  /\ Fee.ret[1].methodName # Tip.ret[1].methodName

\* C10: args[0] is the record {amountIn, amountOut, path, to, deadline}, path
\* being the route's token addresses in order and to the validated recipient;
\* args has a second element, the hex tip, exactly when the input is the
\* native asset.
C10_Args ==
  \A m \in Modules :
    Returned(m) =>
      LET args == Ret(m).args IN
      /\ DOMAIN args[1] = {"amountIn", "amountOut", "path", "to", "deadline"}
      /\ Len(args[1].path) = Len(trade.route.path)
      /\ \A i \in 1 .. Len(trade.route.path) :
           args[1].path[i] = trade.route.path[i].address
      /\ args[1].to = Checksummed(options.recipient)
      /\ IsAddress(options.recipient)
      /\ Len(args) = (IF EtherIn THEN 2 ELSE 1)
      /\ EtherIn => args[2] = HexDigits(TipRaw)
      /\ ~EtherIn => Ret(m).value = HexDigits(TipRaw)

C10_Witness ==
  /\ Returned("fee") /\ ~EtherIn /\ TipRaw > 0
  /\ Len(trade.route.path) = 3 /\ options.recipient = "0xab12"
  /\ Len(Fee.ret[1].args) = 1

-----------------------------------------------------------------------------
(* Properties of the pair pricing *)

Quoted == quote # <<>> /\ quote[1].amountIn > 0 /\ pair.reserveIn > 0 /\ pair.reserveOut > 0
Q == quote[1]

\* C8 (as stated): for positive amountIn and reserves, getOutputAmount and
\* then getInputAmount of that output succeeds and yields an input >= amountIn.
C8_AsStated ==
  Quoted =>
    /\ Q.output.threw = ""
    /\ Q.input.threw = ""
    /\ Q.input.amount >= Q.amountIn

\* C8 (amended): for positive amountIn and reserves, getOutputAmount succeeds
\* with out = floor(amountIn*9975*rOut / (rIn*10000 + amountIn*9975)) < rOut;
\* getInputAmount(out) fails when out = 0 and otherwise succeeds with
\* floor(rIn*out*10000 / ((rOut-out)*9975)) + 1, an input that is at most
\* amountIn + 1 (and can be below amountIn).
C8_RoundTrip ==
  Quoted =>
    /\ Q.output.threw = ""
    /\ Q.output.amount
         = (Q.amountIn * 9975 * pair.reserveOut)
             \div (pair.reserveIn * 10000 + Q.amountIn * 9975)
    /\ Q.output.amount < pair.reserveOut
    /\ Q.output.amount = 0 => Q.input.threw # ""
    /\ Q.output.amount > 0 =>
         /\ Q.input.threw = ""
         /\ Q.input.amount
              = ((pair.reserveIn * Q.output.amount * 10000)
                   \div ((pair.reserveOut - Q.output.amount) * 9975)) + 1
         /\ Q.input.amount <= Q.amountIn + 1

C8_Witness ==
  /\ Quoted /\ Q.output.amount > 0 /\ Q.input.threw = ""
  /\ Q.input.amount < Q.amountIn
  /\ Q.amountIn <= MaxAmountIn

\* the bound amountIn + 1 is attained
C8_Tight ==
  /\ Quoted /\ Q.output.amount > 0 /\ Q.input.threw = ""
  /\ Q.input.amount = Q.amountIn + 1

====
